---- MODULE Spec2Model ----
(***************************************************************************)
(* Model of transfer_nlp/plugins/config.py: the plugin REGISTRY, the chain *)
(* of ObjectInstantiators behind ObjectBuilder.instantiate, and the        *)
(* ExperimentConfig build driver with its builds_started list and its      *)
(* lazily filled, insertion-ordered experiment dict.                       *)
(*                                                                         *)
(* Python values are tagged records:                                       *)
(*   [t |-> "int", i]      a number                                        *)
(*   [t |-> "str", s]      a string                                        *)
(*   [t |-> "list", items] a list, items a sequence of values              *)
(*   [t |-> "dict", items] a dict, items a sequence of <<key, value>> in   *)
(*                         insertion order (keys are strings)              *)
(*   [t |-> "tuple", items], [t |-> "obj", cls], [t |-> "callable", id]    *)
(* Python dicts held in the state (config, env, experiment, REGISTRY) are  *)
(* sequences of <<key, value>> pairs in insertion order.                   *)
(* An outcome is [k |-> "ok", v] (a return) or [k |-> "raise", e] with     *)
(* e = [cls, info] an exception.  The recursive operators thread the       *)
(* mutable part of self, st = [builds_started, experiment], and return     *)
(* [st, out].  st also carries the call stack of build(): stack, the keys  *)
(* of the build() frames that are active, outermost first, and             *)
(* cycle_stack, that stack with the refused key appended, taken when       *)
(* build() raised 'Loop in config'.                                        *)
(***************************************************************************)
EXTENDS Integers, Sequences, FiniteSets, TLC

VARIABLES REGISTRY, config, env, builds_started, experiment, pc, idx, ret,
          cycle_stack

vars == <<REGISTRY, config, env, builds_started, experiment, pc, idx, ret,
          cycle_stack>>

---------------------------------------------------------------------------
(* Values *)

Num(n) == [t |-> "int", i |-> n]
Str(s) == [t |-> "str", s |-> s]
List(items) == [t |-> "list", items |-> items]
Dict(items) == [t |-> "dict", items |-> items]
Tuple(items) == [t |-> "tuple", items |-> items]
Obj(cls) == [t |-> "obj", cls |-> cls]
Callable(id) == [t |-> "callable", id |-> id]
None == [t |-> "none"]
Bool(b) == [t |-> "bool", b |-> b]

(* Python dict operations on a sequence of <<key, value>> pairs *)

DictKeys(d) == {d[j][1] : j \in 1..Len(d)}

DictHas(d, key) == \E j \in 1..Len(d) : d[j][1] = key

DictGet(d, key) == d[CHOOSE j \in 1..Len(d) : d[j][1] = key][2]

DictSet(d, key, value) ==
    IF DictHas(d, key)
    THEN [j \in 1..Len(d) |-> IF d[j][1] = key THEN <<key, value>> ELSE d[j]]
    ELSE Append(d, <<key, value>>)

(* Exceptions and outcomes *)

Exc(cls, info) == [cls |-> cls, info |-> info]

Ok(v) == [k |-> "ok", v |-> v]
Raise(e) == [k |-> "raise", e |-> e]

IsOk(out) == out.k = "ok"
IsRaise(out) == out.k = "raise"
Raises(out, cls) == out.k = "raise" /\ out.e.cls = cls

InstantiationImpossible == Exc("InstantiationImpossible", <<>>)

LoopInConfig == Exc("Exception", <<"Loop in config">>)

UnknownPluginException(registrable) == Exc("UnknownPluginException", <<registrable>>)

WrappedError(name, klass_name) ==
    Exc("CallableInstantiationError",
        <<"Error happened while instantiating", name, "calling", klass_name>>)

(* isinstance(e, CallableInstantiationError): UnknownPluginException is a subclass *)
IsCallableInstantiationError(e) ==
    e.cls \in {"CallableInstantiationError", "UnknownPluginException"}

---------------------------------------------------------------------------
(* The registrables: A, A.g and f of the module, one of the library        *)
(* entries the REGISTRY literal starts with, and a caller-supplied plugin  *)
(*     def raises(error): raise <the exception class error names>          *)
(* through which a registered callable raises what the caller chooses.     *)

ClassA == Callable("A")
StaticG == Callable("A.g")
FuncF == Callable("f")
Adam == Callable("Adam")
RaisesCallable == Callable("raises")

(* registrable.__name__ *)
NameOf(registrable) ==
    CASE registrable = ClassA -> "A"
      [] registrable = StaticG -> "g"
      [] registrable = FuncF -> "f"
      [] registrable = Adam -> "Adam"
      [] registrable = RaisesCallable -> "raises"

TypeError == Exc("TypeError", <<>>)

(* Python's binding of keyword arguments to a signature: every keyword must *)
(* be a parameter and every parameter without default must be given.        *)
Binds(kwargs, required, optional) ==
    /\ DictKeys(kwargs) \subseteq (required \cup optional)
    /\ required \subseteq DictKeys(kwargs)

ArgOr(kwargs, key, default) ==
    IF DictHas(kwargs, key) THEN DictGet(kwargs, key) ELSE default

(* klass called with the keyword arguments param_instances *)
Call(klass, kwargs) ==
    CASE klass = FuncF ->
           IF Binds(kwargs, {"a"}, {"b"})
           THEN Ok(Tuple(<<DictGet(kwargs, "a"), ArgOr(kwargs, "b", Num(2))>>))
           ELSE Raise(TypeError)
      [] klass = ClassA ->
           IF Binds(kwargs, {"a"}, {"b", "c"})
           THEN Ok(Obj("A"))
           ELSE Raise(TypeError)
      [] klass = StaticG -> Ok(Dict(kwargs))
      [] klass = Adam ->
           IF "params" \in DictKeys(kwargs) THEN Ok(Obj("Adam")) ELSE Raise(TypeError)
      [] klass = RaisesCallable ->
           IF ~Binds(kwargs, {"error"}, {}) THEN Raise(TypeError)
           ELSE IF DictGet(kwargs, "error") = Str("CallableInstantiationError")
           THEN Raise(Exc("CallableInstantiationError", <<"raised by the callable">>))
           ELSE IF DictGet(kwargs, "error") = Str("UnknownPluginException")
           THEN Raise(UnknownPluginException("inner"))
           ELSE Raise(Exc("ValueError", <<"raised by the callable">>))

---------------------------------------------------------------------------
(* ObjectBuilder and the instantiators *)

(* self when an operation is called from outside: no build() frame is active *)
State(bs, exp) ==
    [builds_started |-> bs, experiment |-> exp, stack |-> <<>>, cycle_stack |-> <<>>]

Result(st, out) == [st |-> st, out |-> out]

(* config.startswith('$') and config[1:] *)
StartsWithDollar(s) == Len(s) >= 1 /\ SubSeq(s, 1, 1) = "$"

DropFirst(s) == IF Len(s) = 0 THEN s ELSE SubSeq(s, 2, Len(s))

(* the list with the experiment's own store asked first *)
instantiatorsStoreFirst ==
    <<"CallableInstantiator", "DictInstantiator", "ListInstantiator",
      "Experiment objects", "Environment", "Registry">>

(* the list given to ObjectBuilder by ExperimentConfig.__init__ *)
instantiators ==
    <<"CallableInstantiator", "DictInstantiator", "ListInstantiator",
      "Environment", "Registry", "Experiment objects">>

RECURSIVE instantiate(_, _, _)
RECURSIVE TryInstantiators(_, _, _, _)
RECURSIVE InstantiateItems(_, _, _, _, _)
RECURSIVE InstantiateElements(_, _, _, _, _)
RECURSIVE build(_, _)
RECURSIVE InstantiateElementsReversed(_, _, _, _, _)

(* the dict comprehensions of DictInstantiator and CallableInstantiator:   *)
(* items j..end of the mapping in order, acc the pairs built so far; an    *)
(* exception in a value ends the comprehension.                            *)
InstantiateItems(items, j, name, st, acc) ==
    IF j > Len(items) THEN Result(st, Ok(acc))
    ELSE LET r == instantiate(items[j][2], name \o "." \o items[j][1], st)
         IN IF IsRaise(r.out) THEN r
            ELSE InstantiateItems(items, j + 1, name, r.st,
                                  DictSet(acc, items[j][1], r.out.v))

(* the list comprehension building the list back to front *)
InstantiateElementsReversed(items, j, name, st, acc) ==
    IF j > Len(items) THEN Result(st, Ok(acc))
    ELSE LET r == instantiate(items[j], name \o "." \o ToString(j - 1), st)
         IN IF IsRaise(r.out) THEN r
            ELSE InstantiateElementsReversed(items, j + 1, name, r.st,
                                             <<r.out.v>> \o acc)

(* the list comprehension of ListInstantiator; Python counts from 0 *)
InstantiateElements(items, j, name, st, acc) ==
    IF j > Len(items) THEN Result(st, Ok(acc))
    ELSE LET r == instantiate(items[j], name \o "." \o ToString(j - 1), st)
         IN IF IsRaise(r.out) THEN r
            ELSE InstantiateElements(items, j + 1, name, r.st, Append(acc, r.out.v))

(* the comprehension without 'if key != "_name"' *)
WithName(items) == items

WithoutName(items) == SelectSeq(items, LAMBDA kv : kv[1] # "_name")

DictInstantiator(cfg, name, st) ==
    IF cfg.t # "dict" THEN Result(st, Raise(InstantiationImpossible))
    ELSE LET r == InstantiateItems(cfg.items, 1, name, st, <<>>)
         IN IF IsRaise(r.out) THEN r ELSE Result(r.st, Ok(Dict(r.out.v)))

ListInstantiator(cfg, name, st) ==
    IF cfg.t # "list" THEN Result(st, Raise(InstantiationImpossible))
    ELSE LET r == InstantiateElements(cfg.items, 1, name, st, <<>>)
         IN IF IsRaise(r.out) THEN r ELSE Result(r.st, Ok(List(r.out.v)))

(* the try, except without 'except CallableInstantiationError as e: raise e' *)
CallKlassWrapsAll(klass, kwargs, name, klass_name) ==
    LET out == Call(klass, kwargs)
    IN IF IsOk(out) THEN out ELSE Raise(WrappedError(name, klass_name))

(* the try, except around the call of klass *)
CallKlass(klass, kwargs, name, klass_name) ==
    LET out == Call(klass, kwargs)
    IN IF IsOk(out) THEN out
       ELSE IF IsCallableInstantiationError(out.e) THEN out
       ELSE Raise(WrappedError(name, klass_name))

(* CallableInstantiator building the arguments before it looks the alias up *)
CallableInstantiatorArgumentsFirst(cfg, name, st) ==
    IF cfg.t # "dict" \/ ~DictHas(cfg.items, "_name")
    THEN Result(st, Raise(InstantiationImpossible))
    ELSE LET klass_name == DictGet(cfg.items, "_name").s
             r == InstantiateItems(WithoutName(cfg.items), 1, name, st, <<>>)
         IN IF IsRaise(r.out) THEN r
            ELSE IF ~DictHas(REGISTRY, klass_name)
            THEN Result(r.st, Raise(UnknownPluginException(klass_name)))
            ELSE Result(r.st, CallKlass(DictGet(REGISTRY, klass_name), r.out.v,
                                        name, klass_name))

CallableInstantiator(cfg, name, st) ==
    IF cfg.t # "dict" \/ ~DictHas(cfg.items, "_name")
    THEN Result(st, Raise(InstantiationImpossible))
    ELSE LET klass_name == DictGet(cfg.items, "_name").s
         IN IF ~DictHas(REGISTRY, klass_name)
            THEN Result(st, Raise(UnknownPluginException(klass_name)))
            ELSE LET klass == DictGet(REGISTRY, klass_name)
                     r == InstantiateItems(WithoutName(cfg.items), 1, name, st, <<>>)
                 IN IF IsRaise(r.out) THEN r
                    ELSE Result(r.st, CallKlass(klass, r.out.v, name, klass_name))

(* __getitem__ that only looks in self.experiment: KeyError, no build *)
getitemStoredOnly(item, st) ==
    IF DictHas(st.experiment, item)
    THEN Result(st, Ok(DictGet(st.experiment, item)))
    ELSE Result(st, Raise(Exc("KeyError", <<item>>)))

(* __getitem__ without the lookup in self.experiment *)
getitemAlwaysBuilds(item, st) == build(item, st)

(* ExperimentConfig.__getitem__ *)
getitem(item, st) ==
    IF DictHas(st.experiment, item)
    THEN Result(st, Ok(DictGet(st.experiment, item)))
    ELSE build(item, st)

(* FromMappingInstantiator over a plain dict (env, REGISTRY) *)
FromMapping(mapping, cfg, name, st) ==
    IF cfg.t # "str" \/ ~StartsWithDollar(cfg.s)
    THEN Result(st, Raise(InstantiationImpossible))
    ELSE IF DictHas(mapping, DropFirst(cfg.s))
         THEN Result(st, Ok(DictGet(mapping, DropFirst(cfg.s))))
         ELSE Result(st, Raise(InstantiationImpossible))

(* FromMappingInstantiator over self with 'except Exception' for 'except KeyError' *)
FromExperimentExceptAll(cfg, name, st) ==
    IF cfg.t # "str" \/ ~StartsWithDollar(cfg.s)
    THEN Result(st, Raise(InstantiationImpossible))
    ELSE LET r == getitem(DropFirst(cfg.s), st)
         IN IF IsRaise(r.out)
            THEN Result(r.st, Raise(InstantiationImpossible))
            ELSE r

(* FromMappingInstantiator over the ExperimentConfig itself: self.env[...] *)
(* is __getitem__, and only a KeyError out of it is turned into            *)
(* InstantiationImpossible.                                                *)
FromExperiment(cfg, name, st) ==
    IF cfg.t # "str" \/ ~StartsWithDollar(cfg.s)
    THEN Result(st, Raise(InstantiationImpossible))
    ELSE LET r == getitem(DropFirst(cfg.s), st)
         IN IF Raises(r.out, "KeyError")
            THEN Result(r.st, Raise(InstantiationImpossible))
            ELSE r

RunInstantiator(which, cfg, name, st) ==
    CASE which = "CallableInstantiator" -> CallableInstantiator(cfg, name, st)
      [] which = "DictInstantiator" -> DictInstantiator(cfg, name, st)
      [] which = "ListInstantiator" -> ListInstantiator(cfg, name, st)
      [] which = "Environment" -> FromMapping(env, cfg, name, st)
      [] which = "Registry" -> FromMapping(REGISTRY, cfg, name, st)
      [] which = "Experiment objects" -> FromExperiment(cfg, name, st)

RECURSIVE TryInstantiatorsExceptAll(_, _, _, _)
(* the loop with 'except Exception: pass' for 'except InstantiationImpossible' *)
TryInstantiatorsExceptAll(n, cfg, name, st) ==
    IF n > Len(instantiators) THEN Result(st, Ok(cfg))
    ELSE LET r == RunInstantiator(instantiators[n], cfg, name, st)
         IN IF IsRaise(r.out)
            THEN TryInstantiatorsExceptAll(n + 1, cfg, name, r.st)
            ELSE r

(* the loop of ObjectBuilder.instantiate from instantiator n on *)
TryInstantiators(n, cfg, name, st) ==
    IF n > Len(instantiators) THEN Result(st, Ok(cfg))
    ELSE LET r == RunInstantiator(instantiators[n], cfg, name, st)
         IN IF Raises(r.out, "InstantiationImpossible")
            THEN TryInstantiators(n + 1, cfg, name, r.st)
            ELSE r

(* ObjectBuilder.instantiate *)
instantiate(cfg, name, st) == TryInstantiators(1, cfg, name, st)

(* build with self.config.get(key) for self.config[key]: an undeclared    *)
(* key has the node None                                                   *)
buildDefaultsUndeclared(key, st) ==
    IF \E j \in 1..Len(st.builds_started) : st.builds_started[j] = key
    THEN Result([st EXCEPT !.cycle_stack = Append(st.stack, key)], Raise(LoopInConfig))
    ELSE LET started == [st EXCEPT !.builds_started = Append(@, key),
                                   !.stack = Append(@, key)]
             node == IF DictHas(config, key) THEN DictGet(config, key) ELSE None
             r == instantiate(node, key, started)
         IN IF IsRaise(r.out)
            THEN Result([r.st EXCEPT !.stack = st.stack], r.out)
            ELSE Result([r.st EXCEPT !.stack = st.stack,
                                     !.experiment = DictSet(@, key, r.out.v)],
                        r.out)

(* build that appends the key before it tests whether it was started *)
buildAppendsBeforeCheck(key, st) ==
    LET started == [st EXCEPT !.builds_started = Append(@, key),
                              !.stack = Append(@, key)]
    IN IF \E j \in 1..Len(st.builds_started) : st.builds_started[j] = key
       THEN Result([started EXCEPT !.stack = st.stack,
                                   !.cycle_stack = Append(st.stack, key)],
                   Raise(LoopInConfig))
       ELSE IF ~DictHas(config, key)
            THEN Result([started EXCEPT !.stack = st.stack],
                        Raise(Exc("KeyError", <<key>>)))
            ELSE LET r == instantiate(DictGet(config, key), key, started)
                 IN IF IsRaise(r.out)
                    THEN Result([r.st EXCEPT !.stack = st.stack], r.out)
                    ELSE Result([r.st EXCEPT !.stack = st.stack,
                                             !.experiment = DictSet(@, key, r.out.v)],
                                r.out)

(* build that takes the key out of builds_started again when it fails *)
buildForgetsFailed(key, st) ==
    IF \E j \in 1..Len(st.builds_started) : st.builds_started[j] = key
    THEN Result([st EXCEPT !.cycle_stack = Append(st.stack, key)], Raise(LoopInConfig))
    ELSE LET started == [st EXCEPT !.builds_started = Append(@, key),
                                   !.stack = Append(@, key)]
             forget(bs) == SelectSeq(bs, LAMBDA k : k # key)
         IN IF ~DictHas(config, key)
            THEN Result(st, Raise(Exc("KeyError", <<key>>)))
            ELSE LET r == instantiate(DictGet(config, key), key, started)
                 IN IF IsRaise(r.out)
                    THEN Result([r.st EXCEPT !.stack = st.stack,
                                             !.builds_started = forget(@)], r.out)
                    ELSE Result([r.st EXCEPT !.stack = st.stack,
                                             !.experiment = DictSet(@, key, r.out.v)],
                                r.out)

(* ExperimentConfig.build; its frame is on the stack from the append to    *)
(* builds_started until it returns or raises                               *)
build(key, st) ==
    IF \E j \in 1..Len(st.builds_started) : st.builds_started[j] = key
    THEN Result([st EXCEPT !.cycle_stack = Append(st.stack, key)], Raise(LoopInConfig))
    ELSE LET started == [st EXCEPT !.builds_started = Append(@, key),
                                   !.stack = Append(@, key)]
         IN IF ~DictHas(config, key)
            THEN Result([started EXCEPT !.stack = st.stack],
                        Raise(Exc("KeyError", <<key>>)))
            ELSE LET r == instantiate(DictGet(config, key), key, started)
                 IN IF IsRaise(r.out)
                    THEN Result([r.st EXCEPT !.stack = st.stack], r.out)
                    ELSE Result([r.st EXCEPT !.stack = st.stack,
                                             !.experiment = DictSet(@, key, r.out.v)],
                                r.out)

RECURSIVE Constructs(_, _, _)
(* the loop of ExperimentConfig.__init__ from round j on, run to its end,  *)
(* over the top-level keys in the order given: the final self, and None or *)
(* the error that ended it.  The nodes are those of config.                *)
Constructs(order, j, st) ==
    IF j > Len(order) THEN Result(st, Ok(None))
    ELSE IF DictHas(st.experiment, order[j])
         THEN Constructs(order, j + 1, st)
         ELSE LET r == build(order[j], st)
              IN IF IsRaise(r.out) THEN r ELSE Constructs(order, j + 1, r.st)

---------------------------------------------------------------------------
(* Bounds and inputs *)

MaxKeys == 2
MaxLen == 2

(* names used as top-level keys, substitution variables and aliases *)
TopKeys == {"test", "second", "VAR"}

SeqsUpTo(S, n) == UNION {[1..m -> S] : m \in 1..n}

Call1(alias, key, arg) == Dict(<<<<"_name", Str(alias)>>, <<key, arg>>>>)

(* lists of references, as the 'second' of the module's own example *)
ListNodes == {List(items) : items \in SeqsUpTo({Str("$VAR"), Str("$test")}, MaxLen)}

(* nodes a document may hold under the top-level key test *)
NodesTest ==
    {Str("coucou"), Str("$test"), Str("$second"),
     Dict(<<<<"a", Str("$second")>>>>),
     Call1("f", "a", Num(5)),
     Call1("Nope", "a", Str("$second")),
     Call1("raises", "error", Str("CallableInstantiationError"))}

(* nodes a document may hold under the top-level key second *)
NodesSecond ==
    {Str("$test"), Str("$second"), Str("$VAR"), Call1("A.g", "a", Str("$second"))}
    \cup ListNodes

Entries ==
    ({"test"} \X NodesTest) \cup ({"second"} \X NodesSecond)
    \cup ({"VAR"} \X {Str("coucou"), Str("$test")})

DistinctKeys(d) == \A a, b \in 1..Len(d) : a # b => d[a][1] # d[b][1]

(* the documents: up to MaxKeys distinct top-level keys in any order *)
Documents == {<<>>} \cup {d \in SeqsUpTo(Entries, MaxKeys) : DistinctKeys(d)}

(* the documents for the object that stays in use after a failed          *)
(* construction: of the lists only the one of the example                  *)
RetainedEntries ==
    {e \in Entries : e[2].t = "list" => e[2] = List(<<Str("$VAR"), Str("$test")>>)}

RetainedDocuments ==
    {<<>>} \cup {d \in SeqsUpTo(RetainedEntries, MaxKeys) : DistinctKeys(d)}

(* the documents under which ObjectBuilder.instantiate is called directly *)
BuilderDocuments ==
    {<<>>,
     <<<<"second", List(<<Str("$VAR"), Str("$test")>>)>>, <<"test", Str("coucou")>>>>,
     <<<<"VAR", Str("coucou")>>, <<"second", Str("$VAR")>>>>,
     <<<<"second", Str("$VAR")>>, <<"VAR", Str("coucou")>>>>,
     <<<<"test", Call1("f", "a", Num(5))>>>>,
     <<<<"second", Call1("A.g", "a", Str("$second"))>>>>,
     <<<<"second", List(<<Str("$test"), Str("$test")>>)>>>>}

(* nodes handed to ObjectBuilder.instantiate directly *)
PlainNodes ==
    {Num(5), Str("coucou"), List(<<>>),
     List(<<Str("coucou"), Num(5), Str("")>>),
     Dict(<<<<"b", List(<<Num(5), Dict(<<<<"c", Str("x")>>>>)>>)>>, <<"a", Num(5)>>>>)}

BuilderNodes ==
    PlainNodes
    \cup {Str("$VAR"), Str("$test"),
          List(<<Str("$test"), Str("$test")>>),
          Dict(<<<<"a", Str("$test")>>>>),
          Call1("f", "a", Num(5)),
          Call1("A.g", "a", Str("$VAR")),
          Dict(<<<<"_name", Str("A.g")>>, <<"b", Num(5)>>, <<"a", Str("coucou")>>>>),
          Dict(<<<<"_name", Str("f")>>, <<"a", Num(5)>>, <<"r", Num(5)>>>>),
          Call1("Nope", "a", Str("$test")),
          Call1("raises", "error", Str("CallableInstantiationError")),
          Call1("raises", "error", Str("UnknownPluginException")),
          Call1("raises", "error", Str("ValueError")),
          Call1("raises", "error", Call1("Nope", "a", Num(5))),
          Call1("raises", "error",
                Dict(<<<<"_name", Str("f")>>, <<"r", Num(5)>>>>))}

Environments == {<<>>, <<<<"VAR", Num(5)>>>>}

Registrables == {ClassA, StaticG, FuncF, RaisesCallable}

(* alias arguments of register_plugin; None is the default *)
AliasArguments == {None, Str("VAR"), Str("")}

(* the default argument of get: left out, or given *)
Defaults == {None, Str("default")}

(* REGISTRY once the module is imported: the literal, then A, A.g and f *)
ImportedRegistry ==
    <<<<"Adam", Adam>>, <<"A", ClassA>>, <<"A.g", StaticG>>, <<"f", FuncF>>>>

---------------------------------------------------------------------------
(* Operations *)

Returned(op, args, out) == [op |-> op, args |-> args, out |-> out]

(* the module body has run up to its last definition: the decorator of f,  *)
(* its last statement so far, has returned f                               *)
ModuleDefined == Returned("register_plugin", <<FuncF, None>>, Ok(FuncF))

Init ==
    /\ REGISTRY = ImportedRegistry
    /\ config = <<>>
    /\ env = <<>>
    /\ builds_started = <<>>
    /\ experiment = <<>>
    /\ pc = "new"
    /\ idx = 0
    /\ ret = ModuleDefined
    /\ cycle_stack = <<>>

(* alias = alias or registrable.__name__ *)
AliasOr(registrable, alias) ==
    IF alias = None \/ alias = Str("") THEN NameOf(registrable) ELSE alias.s

(* register_plugin without the 'if alias in REGISTRY' check *)
register_plugin_overwrites(registry, registrable, alias) ==
    [registry |-> DictSet(registry, AliasOr(registrable, alias), registrable),
     out |-> Ok(registrable)]

(* register_plugin as a function of the registry: the new registry and the outcome *)
register_plugin(registry, registrable, alias) ==
    LET a == AliasOr(registrable, alias)
    IN IF DictHas(registry, a)
       THEN [registry |-> registry, out |-> Raise(Exc("ValueError", <<a, "is already registered">>))]
       ELSE [registry |-> DictSet(registry, a, registrable), out |-> Ok(registrable)]

(* a call of register_plugin: before an ExperimentConfig is constructed or *)
(* after its constructor has ended, not from inside the constructor, which *)
(* is sequential code that calls only the registrables of the document     *)
RegisterPlugin(registrable, alias) ==
    /\ pc \in {"new", "ready", "failed"}
    /\ LET r == register_plugin(REGISTRY, registrable, alias)
       IN /\ REGISTRY' = r.registry
          /\ ret' = Returned("register_plugin", <<registrable, alias>>, r.out)
    /\ cycle_stack' = <<>>
    /\ UNCHANGED <<config, env, builds_started, experiment, pc, idx>>

(* ExperimentConfig.__init__ up to its loop *)
ExperimentConfigInit(document, variables) ==
    /\ pc = "new"
    /\ config' = document
    /\ env' = variables
    /\ builds_started' = <<>>
    /\ experiment' = <<>>
    /\ idx' = 1
    /\ pc' = "init"
    /\ UNCHANGED <<REGISTRY, ret, cycle_stack>>

(* the loop without 'if key not in self.experiment' *)
InitLoopAlwaysBuilds ==
    /\ pc = "init"
    /\ idx <= Len(config)
    /\ \E r \in {build(config[idx][1], State(builds_started, experiment))} :
          /\ builds_started' = r.st.builds_started
          /\ experiment' = r.st.experiment
          /\ cycle_stack' = r.st.cycle_stack
          /\ IF IsRaise(r.out)
             THEN /\ pc' = "failed"
                  /\ ret' = Returned("__init__", <<config[idx][1]>>, r.out)
                  /\ UNCHANGED idx
             ELSE /\ idx' = idx + 1
                  /\ UNCHANGED <<pc, ret>>
    /\ UNCHANGED <<REGISTRY, config, env>>

(* a constructor that, when a build fails, clears what it did and starts   *)
(* its loop again                                                          *)
InitLoopRetries ==
    /\ pc = "init"
    /\ idx <= Len(config)
    /\ LET key == config[idx][1]
           st == State(builds_started, experiment)
       IN IF DictHas(experiment, key)
          THEN /\ idx' = idx + 1
               /\ UNCHANGED <<builds_started, experiment, pc, ret, cycle_stack>>
          ELSE \E r \in {build(key, st)} :
                  IF IsRaise(r.out)
                  THEN /\ builds_started' = <<>>
                       /\ experiment' = <<>>
                       /\ idx' = 1
                       /\ UNCHANGED <<pc, ret, cycle_stack>>
                  ELSE /\ builds_started' = r.st.builds_started
                       /\ experiment' = r.st.experiment
                       /\ cycle_stack' = r.st.cycle_stack
                       /\ idx' = idx + 1
                       /\ UNCHANGED <<pc, ret>>
    /\ UNCHANGED <<REGISTRY, config, env>>

(* one round of the loop of ExperimentConfig.__init__ *)
InitLoop ==
    /\ pc = "init"
    /\ idx <= Len(config)
    /\ LET key == config[idx][1]
           st == State(builds_started, experiment)
       IN IF DictHas(experiment, key)
          THEN /\ idx' = idx + 1
               /\ UNCHANGED <<builds_started, experiment, pc, ret, cycle_stack>>
          ELSE \E r \in {build(key, st)} :
                  /\ builds_started' = r.st.builds_started
                  /\ experiment' = r.st.experiment
                  /\ cycle_stack' = r.st.cycle_stack
                  /\ IF IsRaise(r.out)
                     THEN /\ pc' = "failed"
                          /\ ret' = Returned("__init__", <<key>>, r.out)
                          /\ UNCHANGED idx
                     ELSE /\ idx' = idx + 1
                          /\ UNCHANGED <<pc, ret>>
    /\ UNCHANGED <<REGISTRY, config, env>>

(* ExperimentConfig.__init__ returns *)
InitReturn ==
    /\ pc = "init"
    /\ idx > Len(config)
    /\ pc' = "ready"
    /\ ret' = Returned("__init__", <<>>, Ok(None))
    /\ UNCHANGED <<REGISTRY, config, env, builds_started, experiment, idx, cycle_stack>>

(* exp[item] *)
GetItem(item) ==
    /\ pc = "ready"
    /\ \E r \in {getitem(item, State(builds_started, experiment))} :
          /\ builds_started' = r.st.builds_started
          /\ experiment' = r.st.experiment
          /\ cycle_stack' = r.st.cycle_stack
          /\ ret' = Returned("__getitem__", <<item>>, r.out)
    /\ UNCHANGED <<REGISTRY, config, env, pc, idx>>

(* key in exp, as Mapping has it: self[key], False on KeyError, else True *)
Contains(key) ==
    /\ pc = "ready"
    /\ \E r \in {getitem(key, State(builds_started, experiment))} :
          /\ builds_started' = r.st.builds_started
          /\ experiment' = r.st.experiment
          /\ cycle_stack' = r.st.cycle_stack
          /\ ret' = Returned("__contains__", <<key>>,
                             IF IsOk(r.out) THEN Ok(Bool(TRUE))
                             ELSE IF Raises(r.out, "KeyError") THEN Ok(Bool(FALSE))
                             ELSE r.out)
    /\ UNCHANGED <<REGISTRY, config, env, pc, idx>>

(* exp.build(key) *)
Build(key) ==
    /\ pc = "ready"
    /\ \E r \in {build(key, State(builds_started, experiment))} :
          /\ builds_started' = r.st.builds_started
          /\ experiment' = r.st.experiment
          /\ cycle_stack' = r.st.cycle_stack
          /\ ret' = Returned("build", <<key>>, r.out)
    /\ UNCHANGED <<REGISTRY, config, env, pc, idx>>

(* get as the Mapping mixin has it: self[item], default on KeyError *)
GetBuilds(item, default) ==
    /\ pc = "ready"
    /\ \E r \in {getitem(item, State(builds_started, experiment))} :
          /\ builds_started' = r.st.builds_started
          /\ experiment' = r.st.experiment
          /\ cycle_stack' = r.st.cycle_stack
          /\ ret' = Returned("get", <<item, default>>,
                             IF Raises(r.out, "KeyError") THEN Ok(default) ELSE r.out)
    /\ UNCHANGED <<REGISTRY, config, env, pc, idx>>

(* exp.get(item, default) *)
Get(item, default) ==
    /\ pc = "ready"
    /\ ret' = Returned("get", <<item, default>>,
                       Ok(IF DictHas(experiment, item)
                          THEN DictGet(experiment, item) ELSE default))
    /\ cycle_stack' = <<>>
    /\ UNCHANGED <<REGISTRY, config, env, builds_started, experiment, pc, idx>>

(* __setitem__ writing into the store *)
SetItemStores(key, value) ==
    /\ pc = "ready"
    /\ experiment' = DictSet(experiment, key, value)
    /\ ret' = Returned("__setitem__", <<key, value>>, Ok(None))
    /\ cycle_stack' = <<>>
    /\ UNCHANGED <<REGISTRY, config, env, builds_started, pc, idx>>

(* exp[key] = value *)
SetItem(key, value) ==
    /\ pc = "ready"
    /\ ret' = Returned("__setitem__", <<key, value>>,
                       Raise(Exc("ValueError", <<"cannot update experiment!">>)))
    /\ cycle_stack' = <<>>
    /\ UNCHANGED <<REGISTRY, config, env, builds_started, experiment, pc, idx>>

(* exp.builder.instantiate(cfg, name) *)
Instantiate(cfg, name) ==
    /\ pc = "ready"
    /\ \E r \in {instantiate(cfg, name, State(builds_started, experiment))} :
          /\ builds_started' = r.st.builds_started
          /\ experiment' = r.st.experiment
          /\ cycle_stack' = r.st.cycle_stack
          /\ ret' = Returned("instantiate", <<cfg, name>>, r.out)
    /\ UNCHANGED <<REGISTRY, config, env, pc, idx>>

(* len(exp) *)
Length ==
    /\ pc = "ready"
    /\ ret' = Returned("__len__", <<>>, Ok(Num(Len(experiment))))
    /\ cycle_stack' = <<>>
    /\ UNCHANGED <<REGISTRY, config, env, builds_started, experiment, pc, idx>>

(* list(exp.keys()), which is also list(exp) *)
Keys ==
    /\ pc = "ready"
    /\ ret' = Returned("keys", <<>>,
                       Ok(List([j \in 1..Len(experiment) |-> Str(experiment[j][1])])))
    /\ cycle_stack' = <<>>
    /\ UNCHANGED <<REGISTRY, config, env, builds_started, experiment, pc, idx>>

(* the caller holds on to the object whose __init__ raised (made with      *)
(* __new__, or found in the traceback) and goes on calling its methods     *)
Retain ==
    /\ pc = "failed"
    /\ pc' = "ready"
    /\ UNCHANGED <<REGISTRY, config, env, builds_started, experiment, idx, ret,
                   cycle_stack>>

(* the document of the example the module body constructs after its       *)
(* definitions                                                             *)
ModuleExampleDocument ==
    <<<<"test", Str("coucou")>>,
      <<"third", Str("$second")>>,
      <<"second", List(<<Str("$VAR"), Str("$test")>>)>>,
      <<"a", Dict(<<<<"_name", Str("A")>>, <<"a", Num(4)>>, <<"c", Num(5)>>>>)>>,
      <<"None", Dict(<<<<"_name", Str("f")>>, <<"a", Num(5)>>, <<"r", Num(5)>>>>)>>>>

(* the module body goes on from its definitions:                           *)
(* exp = ExperimentConfig({...}, VAR=5) enters __init__                    *)
ModuleExample ==
    /\ ret = ModuleDefined
    /\ REGISTRY = ImportedRegistry
    /\ ExperimentConfigInit(ModuleExampleDocument, <<<<"VAR", Num(5)>>>>)

(* the constructor the module body called is running or has ended *)
ModuleBodyRuns == config = ModuleExampleDocument

(* the error of that constructor leaves the module body: exp is not bound, *)
(* the print after it does not run, and the import raises the error        *)
ImportRaises ==
    /\ ModuleBodyRuns
    /\ pc = "failed"
    /\ pc' = "unimported"
    /\ ret' = Returned("import", <<>>, ret.out)
    /\ UNCHANGED <<REGISTRY, config, env, builds_started, experiment, idx, cycle_stack>>

(* register_plugin called by a caller of the definitions: there is none   *)
(* while the module body runs                                              *)
CallerRegisters(registrable, alias) ==
    /\ ~ModuleBodyRuns
    /\ RegisterPlugin(registrable, alias)

(* the module body running its example to the end, or the life of one      *)
(* ExperimentConfig a caller of the definitions constructs; a caller comes *)
(* to the definitions only where the module body stops after them          *)
Next ==
    \/ ModuleExample
    \/ ImportRaises
    \/ \E registrable \in {FuncF, RaisesCallable} : CallerRegisters(registrable, None)
    \/ \E document \in Documents, variables \in Environments :
          ExperimentConfigInit(document, variables)
    \/ InitLoop
    \/ InitReturn
    \/ \E item \in TopKeys : GetItem(item)
    \/ \E key \in TopKeys : Contains(key)
    \/ \E key \in TopKeys : Build(key)
    \/ \E item \in TopKeys, default \in Defaults : Get(item, default)
    \/ Length
    \/ Keys
    \/ \E key \in TopKeys : SetItem(key, Num(5))
    \/ \E cfg \in {Str("$test"), Call1("Nope", "a", Str("$test"))} :
          Instantiate(cfg, "config")

Spec == Init /\ [][Next]_vars

(* one construction, run to its end: __init__ is sequential code, so its   *)
(* loop takes its next round, and it returns after the last                *)
NextConstruction ==
    \/ RegisterPlugin(RaisesCallable, None)
    \/ \E document \in Documents, variables \in Environments :
          ExperimentConfigInit(document, variables)
    \/ InitLoop
    \/ InitReturn

(* InitLoop is enabled, and changes the state, exactly when the loop has a *)
(* key left *)
InitLoopEnabled == pc = "init" /\ idx <= Len(config)

(* weak fairness of InitLoop, its enabling condition written out *)
FairInitLoop == <>[]InitLoopEnabled => []<><<InitLoop>>_vars

SpecConstruction ==
    Init /\ [][NextConstruction]_vars /\ FairInitLoop /\ WF_vars(InitReturn)

(* builds on an object that stays in use also when its construction failed *)
NextRetained ==
    \/ RegisterPlugin(RaisesCallable, None)
    \/ \E document \in RetainedDocuments, variables \in Environments :
          ExperimentConfigInit(document, variables)
    \/ InitLoop
    \/ InitReturn
    \/ Retain
    \/ \E item \in TopKeys : GetItem(item)
    \/ \E key \in TopKeys : Contains(key)
    \/ \E key \in TopKeys : Build(key)
    \/ Length
    \/ Keys

SpecRetained == Init /\ [][NextRetained]_vars

(* get and assignment on an object that stays in use also when its         *)
(* construction failed                                                     *)
NextAccessors ==
    \/ RegisterPlugin(RaisesCallable, None)
    \/ \E document \in RetainedDocuments, variables \in Environments :
          ExperimentConfigInit(document, variables)
    \/ InitLoop
    \/ InitReturn
    \/ Retain
    \/ \E item \in TopKeys, default \in Defaults : Get(item, default)
    \/ \E key \in TopKeys : SetItem(key, Num(5))

SpecAccessors == Init /\ [][NextAccessors]_vars

(* calls of ObjectBuilder.instantiate on a constructed ExperimentConfig *)
NextBuilder ==
    \/ \E registrable \in {FuncF, RaisesCallable}, alias \in {None, Str("VAR")} :
          RegisterPlugin(registrable, alias)
    \/ \E document \in BuilderDocuments, variables \in Environments :
          ExperimentConfigInit(document, variables)
    \/ InitLoop
    \/ InitReturn
    \/ \E cfg \in BuilderNodes : Instantiate(cfg, "config")

SpecBuilder == Init /\ [][NextBuilder]_vars

(* calls of register_plugin *)
NextRegistry ==
    \E registrable \in Registrables, alias \in AliasArguments :
        RegisterPlugin(registrable, alias)

SpecRegistry == Init /\ [][NextRegistry]_vars

---------------------------------------------------------------------------
(* Vocabulary of the properties *)

Range(seq) == {seq[j] : j \in 1..Len(seq)}

Position(d, key) == CHOOSE j \in 1..Len(d) : d[j][1] = key

Constructed == pc \in {"init", "ready", "failed"}
(* the constructor is running or was the last operation: REGISTRY is the  *)
(* one it ran with, and ret holds how it ended                            *)
AtConstruction == pc = "init" \/ (Constructed /\ ret.op = "__init__")

IsTypeKeyMapping(node) == node.t = "dict" /\ DictHas(node.items, "_name")

IsReference(node) == node.t = "str" /\ StartsWithDollar(node.s)

(* the names n of the reference scalars "$n" a build of the node would meet: *)
(* every string value below it except the alias under '_name'                *)
RECURSIVE RefNames(_)
RefNames(node) ==
    CASE node.t = "str" -> IF StartsWithDollar(node.s) THEN {DropFirst(node.s)} ELSE {}
      [] node.t = "list" -> UNION {RefNames(node.items[j]) : j \in 1..Len(node.items)}
      [] node.t = "dict" ->
           UNION {IF node.items[j][1] = "_name" THEN {} ELSE RefNames(node.items[j][2]) :
                     j \in 1..Len(node.items)}
      [] OTHER -> {}

(* the type-key mappings at or below a node *)
RECURSIVE TypeKeyMappings(_)
TypeKeyMappings(node) ==
    CASE node.t = "list" ->
           UNION {TypeKeyMappings(node.items[j]) : j \in 1..Len(node.items)}
      [] node.t = "dict" ->
           (IF IsTypeKeyMapping(node) THEN {node} ELSE {})
           \cup UNION {IF node.items[j][1] = "_name" THEN {}
                       ELSE TypeKeyMappings(node.items[j][2]) : j \in 1..Len(node.items)}
      [] OTHER -> {}

(* a name resolves against the experiment store when neither the           *)
(* substitution variables nor the Registry hold it                         *)
ResolvesInStore(n) == ~DictHas(env, n) /\ ~DictHas(REGISTRY, n)

(* the top-level keys the node of top-level key k refers to through the store *)
DependsOn(k) ==
    {n \in RefNames(DictGet(config, k)) : ResolvesInStore(n) /\ DictHas(config, n)}

RECURSIVE ReachedFrom(_, _)
ReachedFrom(S, n) ==
    IF n = 0 THEN S
    ELSE ReachedFrom(S \cup UNION {DependsOn(j) : j \in S}, n - 1)

(* k's node reaches a reference to k itself *)
Cyclic(k) == k \in ReachedFrom(DependsOn(k), Len(config))

(* a type-key mapping whose instantiation fails by itself: its alias is    *)
(* not registered or the call rejects or raises whatever the arguments are *)
FailsByItself(node) ==
    LET alias == DictGet(node.items, "_name").s
    IN \/ ~DictHas(REGISTRY, alias)
       \/ IsRaise(Call(DictGet(REGISTRY, alias),
                       SelectSeq(node.items, LAMBDA kv : kv[1] # "_name")))

NoFailingMapping ==
    \A j \in 1..Len(config) : \A m \in TypeKeyMappings(config[j][2]) : ~FailsByItself(m)

ConstructionFailedWith(e) ==
    pc = "failed" /\ ret.op = "__init__" /\ ret.out = Raise(e)

---------------------------------------------------------------------------
(* C1, as stated: whenever the build of a top-level key k whose node       *)
(* reaches a reference to k through the store has started, construction    *)
(* has failed with the cycle error 'Loop in config'.                       *)
C1_AlwaysLoopError ==
    AtConstruction =>
        \A k \in DictKeys(config) :
            (Cyclic(k) /\ k \in Range(builds_started)) =>
                ConstructionFailedWith(LoopInConfig)

(* C1, amended: once the build of such a key k has started, construction   *)
(* has failed and k is not in the store; the error is the cycle error      *)
(* 'Loop in config' or the unknown-plugin or instantiation error of a      *)
(* type-key mapping, and it is the cycle error whenever no type-key        *)
(* mapping of the document fails by itself.                                *)
C1_CyclicBuildFails ==
    AtConstruction =>
        \A k \in DictKeys(config) :
            (Cyclic(k) /\ k \in Range(builds_started)) =>
                /\ pc = "failed"
                /\ ret.op = "__init__"
                /\ IsRaise(ret.out)
                /\ ret.out.e = LoopInConfig \/ IsCallableInstantiationError(ret.out.e)
                /\ NoFailingMapping => ret.out.e = LoopInConfig
                /\ ~DictHas(experiment, k)

(* a cycle through two keys and a list ended the construction *)
C1_Witness ==
    /\ config = <<<<"second", List(<<Str("$VAR"), Str("$test")>>)>>,
                  <<"test", Str("$second")>>>>
    /\ builds_started = <<"second", "test">>
    /\ ConstructionFailedWith(LoopInConfig)

---------------------------------------------------------------------------
ExampleDocument ==
    <<<<"second", List(<<Str("$VAR"), Str("$test")>>)>>, <<"test", Str("coucou")>>>>

VarIsFive == <<<<"VAR", Num(5)>>>>

(* a top-level key n was started by the loop of __init__ itself *)
StartedByLoop(n) ==
    \E j \in 1..Len(config) :
        config[j][1] = n /\ (j < idx \/ (pc = "failed" /\ j = idx))

(* what instantiate did with a reference "$n": the first of the substitution *)
(* variables, the Registry and the store that holds n gave the value, and    *)
(* the first two gave it without touching builds_started or the store        *)
C2_InstantiateStep ==
    (ret'.op = "instantiate" /\ IsReference(ret'.args[1])) =>
        LET n == DropFirst(ret'.args[1].s)
        IN /\ DictHas(env, n) =>
                /\ ret'.out = Ok(DictGet(env, n))
                /\ UNCHANGED <<builds_started, experiment>>
           /\ (~DictHas(env, n) /\ DictHas(REGISTRY, n)) =>
                /\ ret'.out = Ok(DictGet(REGISTRY, n))
                /\ UNCHANGED <<builds_started, experiment>>
           /\ (ResolvesInStore(n) /\ DictHas(experiment, n)) =>
                ret'.out = Ok(DictGet(experiment, n))

C2_Stored ==
    AtConstruction =>
        /\ \A k \in DictKeys(experiment) :
              IsReference(DictGet(config, k)) =>
                  LET n == DropFirst(DictGet(config, k).s)
                  IN /\ DictHas(env, n) => DictGet(experiment, k) = DictGet(env, n)
                     /\ (~DictHas(env, n) /\ DictHas(REGISTRY, n)) =>
                            DictGet(experiment, k) = DictGet(REGISTRY, n)
        /\ \A n \in Range(builds_started) :
              (DictHas(env, n) \/ DictHas(REGISTRY, n)) => StartedByLoop(n)

(* C2: a reference "$n" resolves to the substitution variable n if there   *)
(* is one, else to the Registry entity n if there is one, else against the *)
(* store, also when n is a top-level key; a key whose reference an earlier *)
(* namespace resolves holds that namespace's value, and no build of the    *)
(* top-level key n is started by such a reference.                         *)
C2_ReferencePriority == []C2_Stored /\ [][C2_InstantiateStep]_vars

(* "$VAR" was instantiated with VAR a substitution variable, a Registry    *)
(* alias and a built top-level key at once                                 *)
C2_Witness ==
    /\ pc = "ready"
    /\ ret.op = "instantiate"
    /\ ret.args[1] = Str("$VAR")
    /\ DictHas(env, "VAR") /\ DictHas(REGISTRY, "VAR")
    /\ DictHas(experiment, "VAR") /\ DictGet(experiment, "VAR") = Str("coucou")
    /\ ret.out = Ok(Num(5))

---------------------------------------------------------------------------
NoDuplicates(seq) == \A a, b \in 1..Len(seq) : a # b => seq[a] # seq[b]

(* C3: every key k in the store has each top-level key j its node refers   *)
(* to through the store started and stored before it; no key's build is    *)
(* started twice; and the example document with VAR=5 is constructed       *)
(* without error, test stored before second = [5, "coucou"].  The example  *)
(* of the module body, which has these two keys among its five, stores     *)
(* them likewise, second before third, before its last key fails.          *)
C3_DependenciesStoredFirst ==
    (Constructed \/ pc = "unimported") =>
        /\ (ModuleBodyRuns /\ pc # "init") =>
              /\ SubSeq(experiment, 1, 3) =
                    <<<<"test", Str("coucou")>>,
                      <<"second", List(<<Num(5), Str("coucou")>>)>>,
                      <<"third", List(<<Num(5), Str("coucou")>>)>>>>
              /\ builds_started = <<"test", "third", "second", "a", "None">>
              /\ ~DictHas(experiment, "None")
        /\ \A k \in DictKeys(experiment) : \A j \in DependsOn(k) :
              /\ j \in Range(builds_started)
              /\ DictHas(experiment, j)
              /\ Position(experiment, j) < Position(experiment, k)
        /\ NoDuplicates(builds_started)
        /\ (config = ExampleDocument /\ env = VarIsFive) =>
              /\ pc # "failed"
              /\ pc = "ready" =>
                    /\ experiment = <<<<"test", Str("coucou")>>,
                                      <<"second", List(<<Num(5), Str("coucou")>>)>>>>
                    /\ SubSeq(builds_started, 1, 2) = <<"second", "test">>

(* the example document is constructed: second started first, test stored first *)
C3_Witness ==
    /\ pc = "ready"
    /\ config = ExampleDocument /\ env = VarIsFive
    /\ builds_started = <<"second", "test">>
    /\ experiment = <<<<"test", Str("coucou")>>,
                      <<"second", List(<<Num(5), Str("coucou")>>)>>>>

---------------------------------------------------------------------------
(* C4, as stated: instantiating a reference "$n" with n no substitution    *)
(* variable, no Registry alias and no top-level key returns the string     *)
(* unchanged, at every occurrence.                                         *)
C4_UndefinedReferencePassesThrough ==
    (/\ ret.op = "instantiate"
     /\ IsReference(ret.args[1])
     /\ ResolvesInStore(DropFirst(ret.args[1].s))
     /\ ~DictHas(config, DropFirst(ret.args[1].s)))
    => ret.out = Ok(ret.args[1])

---------------------------------------------------------------------------
C5_Step ==
    pc \in {"init", "ready"} =>
        /\ Len(experiment') >= Len(experiment)
        /\ \A j \in 1..Len(experiment) : experiment'[j] = experiment[j]
        /\ (ret'.op = "__getitem__" /\ DictHas(experiment, ret'.args[1])) =>
              /\ ret'.out = Ok(DictGet(experiment, ret'.args[1]))
              /\ builds_started' = builds_started
        /\ (ret'.op = "__contains__" /\ DictHas(experiment, ret'.args[1])) =>
              /\ ret'.out = Ok(Bool(TRUE))
              /\ builds_started' = builds_started

(* C5: no step of a constructed ExperimentConfig changes or removes an     *)
(* entry of the store, and indexing a stored key returns the stored value  *)
(* and leaves builds_started as it was; so does a membership test of a     *)
(* stored key, which answers True.                                         *)
C5_StoreAppendOnly == [][C5_Step]_vars

(* a stored key was indexed after a failed build of an undeclared name *)
C5_Witness ==
    /\ pc = "ready"
    /\ ret.op = "__getitem__"
    /\ DictHas(experiment, ret.args[1])
    /\ ret.out = Ok(DictGet(experiment, ret.args[1]))
    /\ Len(builds_started) > Len(experiment)

---------------------------------------------------------------------------
(* the sibling keys of '_name' with their nodes, in document order *)
Siblings(node) ==
    LET keep == {j \in 1..Len(node.items) : node.items[j][1] # "_name"}
        nth(m) == CHOOSE j \in keep : Cardinality({i \in keep : i < j}) = m - 1
    IN [m \in 1..Cardinality(keep) |-> node.items[nth(m)]]

AliasOf(node) == DictGet(node.items, "_name").s

(* argument nodes whose value is known without the builder: a scalar that  *)
(* is no reference, or a reference to a substitution variable              *)
KnownArgument(v) ==
    /\ v.t \in {"int", "str"}
    /\ IsReference(v) => DictHas(env, DropFirst(v.s))

ArgumentValue(v) == IF IsReference(v) THEN DictGet(env, DropFirst(v.s)) ELSE v

KnownArguments(node) ==
    \A j \in 1..Len(node.items) :
        node.items[j][1] # "_name" => KnownArgument(node.items[j][2])

(* one keyword argument per sibling key, '_name' left out *)
KeywordArguments(node) ==
    [m \in 1..Len(Siblings(node)) |->
        <<Siblings(node)[m][1], ArgumentValue(Siblings(node)[m][2])>>]

InstantiatedTypeKey ==
    /\ ret.op = "instantiate"
    /\ IsTypeKeyMapping(ret.args[1])

(* C6: instantiating a mapping with '_name' whose alias is registered      *)
(* returns what the registered entity returns for one keyword argument per *)
(* sibling key with the instantiated sibling as value, never the mapping   *)
(* itself; {"_name": "f", "a": 5} gives f(a=5) = (5, 2).                   *)
C6_TypeKeyMappingIsCalled ==
    InstantiatedTypeKey =>
        LET node == ret.args[1]
        IN /\ ret.out # Ok(node)
           /\ IsOk(ret.out) =>
                ~(ret.out.v.t = "dict" /\ DictHas(ret.out.v.items, "_name"))
           /\ (DictHas(REGISTRY, AliasOf(node)) /\ KnownArguments(node)) =>
                LET out == Call(DictGet(REGISTRY, AliasOf(node)), KeywordArguments(node))
                IN /\ IsOk(out) => ret.out = out
                   /\ IsRaise(out) => IsRaise(ret.out)
           /\ (node = Call1("f", "a", Num(5)) /\ DictGet(REGISTRY, "f") = FuncF) =>
                ret.out = Ok(Tuple(<<Num(5), Num(2)>>))

(* {"_name": "f", "a": 5} was instantiated and gave (5, 2) *)
C6_Witness ==
    /\ InstantiatedTypeKey
    /\ ret.args[1] = Call1("f", "a", Num(5))
    /\ ret.out = Ok(Tuple(<<Num(5), Num(2)>>))

---------------------------------------------------------------------------
Last(seq) == seq[Len(seq)]

C7_Failed ==
    AtConstruction =>
        \A k \in DictKeys(config) :
            LET node == DictGet(config, k)
            IN (/\ IsTypeKeyMapping(node)
                /\ ~DictHas(REGISTRY, AliasOf(node))
                /\ k \in Range(builds_started)) =>
                   /\ ConstructionFailedWith(UnknownPluginException(AliasOf(node)))
                   /\ Last(builds_started) = k
                   /\ ~DictHas(experiment, k)
                   /\ ~DictHas(experiment, config[idx][1])

C7_Step ==
    (/\ ret'.op = "instantiate"
     /\ IsTypeKeyMapping(ret'.args[1])
     /\ ~DictHas(REGISTRY, AliasOf(ret'.args[1]))) =>
        /\ ret'.out = Raise(UnknownPluginException(AliasOf(ret'.args[1])))
        /\ UNCHANGED <<builds_started, experiment>>

(* C7: a mapping whose '_name' is no Registry alias raises the             *)
(* unknown-plugin error naming that alias and starts and stores nothing;   *)
(* when it is the node of a top-level key k, construction fails with that  *)
(* error, k is the last build started, and neither k nor the key whose     *)
(* round of the constructor loop led to k is in the store.                 *)
C7_UnknownPluginFailsFirst == []C7_Failed /\ [][C7_Step]_vars

(* building second led to test, whose mapping names the unknown alias Nope *)
(* and has the argument "$second"                                          *)
C7_Witness ==
    /\ config = <<<<"second", Str("$test")>>,
                  <<"test", Call1("Nope", "a", Str("$second"))>>>>
    /\ builds_started = <<"second", "test">>
    /\ experiment = <<>>
    /\ ConstructionFailedWith(UnknownPluginException("Nope"))

---------------------------------------------------------------------------
(* the error a type-key mapping with known arguments raises by itself *)
OwnError(node, name) ==
    IF ~DictHas(REGISTRY, AliasOf(node))
    THEN UnknownPluginException(AliasOf(node))
    ELSE LET out == Call(DictGet(REGISTRY, AliasOf(node)), KeywordArguments(node))
         IN IF IsCallableInstantiationError(out.e) THEN out.e
            ELSE WrappedError(name, AliasOf(node))

C8_Returned ==
    (InstantiatedTypeKey /\ DictHas(REGISTRY, AliasOf(ret.args[1]))) =>
        LET node == ret.args[1]
            name == ret.args[2]
        IN /\ (KnownArguments(node) /\ FailsByItself(node)) =>
                ret.out = Raise(OwnError(node, name))
           /\ \A j \in 1..Len(node.items) :
                LET key == node.items[j][1]
                    arg == node.items[j][2]
                IN (/\ Len(node.items) = 2
                    /\ key # "_name"
                    /\ IsTypeKeyMapping(arg)
                    /\ KnownArguments(arg)
                    /\ FailsByItself(arg)) =>
                       ret.out = Raise(OwnError(arg, name \o "." \o key))
           /\ IsRaise(ret.out) =>
                ret.out.e = LoopInConfig \/ IsCallableInstantiationError(ret.out.e)

C8_CycleThroughArgument ==
    (AtConstruction /\ config = <<<<"second", Call1("A.g", "a", Str("$second"))>>>>
                 /\ "second" \in Range(builds_started)) =>
        ConstructionFailedWith(LoopInConfig)

(* C8: when the called entity raises, instantiate raises a new             *)
(* CallableInstantiationError naming the path and the alias, unless the    *)
(* entity raised a CallableInstantiationError or an unknown-plugin error,  *)
(* which is raised as it is; the error of an argument (unknown plugin,     *)
(* instantiation error under the argument's own path, cycle error) is      *)
(* raised as it is in place of any error of the entity.                    *)
C8_EntityErrorsAreWrappedOnce == C8_Returned /\ C8_CycleThroughArgument

(* the entity raised a CallableInstantiationError and the caller got that one *)
C8_Witness ==
    /\ InstantiatedTypeKey
    /\ ret.args[1] = Call1("raises", "error", Str("CallableInstantiationError"))
    /\ ret.out = Raise(Exc("CallableInstantiationError", <<"raised by the callable">>))

---------------------------------------------------------------------------
C9_Step ==
    /\ \A j \in 1..Len(REGISTRY) : Len(REGISTRY') >= j /\ REGISTRY'[j] = REGISTRY[j]
    /\ (ret'.op = "register_plugin" /\ ret'.args[2] # Str("")) =>
          LET registrable == ret'.args[1]
              alias == IF ret'.args[2] = None THEN NameOf(registrable) ELSE ret'.args[2].s
          IN IF alias \in DictKeys(REGISTRY)
             THEN /\ Raises(ret'.out, "ValueError")
                  /\ REGISTRY' = REGISTRY
             ELSE /\ ret'.out = Ok(registrable)
                  /\ REGISTRY' = Append(REGISTRY, <<alias, registrable>>)

(* C9: a register_plugin call under an alias the Registry does not hold    *)
(* adds exactly that entry and returns the entity; under an alias it holds *)
(* the call raises and the Registry stays as it is; no step removes or     *)
(* changes an entry.                                                       *)
C9_RegistryKeepsFirstEntry == [][C9_Step]_vars

(* a second entity was refused the alias VAR, which f keeps *)
C9_Witness ==
    /\ DictHas(REGISTRY, "VAR") /\ DictGet(REGISTRY, "VAR") = FuncF
    /\ ret.op = "register_plugin"
    /\ ret.args = <<ClassA, Str("VAR")>>
    /\ Raises(ret.out, "ValueError")

---------------------------------------------------------------------------
(* scalars, mappings without '_name' and sequences, no string starting with '$' *)
RECURSIVE IsPlain(_)
IsPlain(node) ==
    CASE node.t = "int" -> TRUE
      [] node.t = "str" -> ~StartsWithDollar(node.s)
      [] node.t = "list" -> \A j \in 1..Len(node.items) : IsPlain(node.items[j])
      [] node.t = "dict" ->
           \A j \in 1..Len(node.items) :
               node.items[j][1] # "_name" /\ IsPlain(node.items[j][2])
      [] OTHER -> FALSE

C10_Step ==
    (ret'.op = "instantiate" /\ IsPlain(ret'.args[1])) =>
        /\ ret'.out = Ok(ret'.args[1])
        /\ UNCHANGED <<builds_started, experiment>>
        /\ instantiate(ret'.out.v, ret'.args[2], State(builds_started', experiment'))
             = Result(State(builds_started, experiment), ret'.out)

(* C10: instantiating a document without type keys and references returns *)
(* the same structure, leaves the store and builds_started alone, and     *)
(* instantiating the result returns it again.                             *)
C10_PlainDocumentPassesThrough == [][C10_Step]_vars

(* a nested plain document was instantiated on an experiment with a store *)
C10_Witness ==
    /\ ret.op = "instantiate"
    /\ ret.args[1] =
         Dict(<<<<"b", List(<<Num(5), Dict(<<<<"c", Str("x")>>>>)>>)>>, <<"a", Num(5)>>>>)
    /\ ret.out = Ok(ret.args[1])
    /\ Len(experiment) > 0

---------------------------------------------------------------------------
C11_Step ==
    (ret'.op = "__setitem__") =>
        /\ ret'.out = Raise(Exc("ValueError", <<"cannot update experiment!">>))
        /\ UNCHANGED <<experiment, builds_started, config>>

(* C11: every assignment exp[key] = value raises ValueError('cannot update *)
(* experiment!') and leaves the store, builds_started and the document as  *)
(* they were, the key being stored, declared but not stored, or undeclared. *)
C11_AssignmentIsRejected == [][C11_Step]_vars

(* an assignment to a declared key that was never stored was rejected *)
C11_Witness ==
    /\ pc = "ready"
    /\ ret.op = "__setitem__"
    /\ DictHas(config, ret.args[1])
    /\ ~DictHas(experiment, ret.args[1])
    /\ IsRaise(ret.out)

---------------------------------------------------------------------------
C12_Step ==
    (ret'.op = "get") =>
        /\ UNCHANGED <<experiment, builds_started>>
        /\ DictHas(experiment, ret'.args[1]) =>
              ret'.out = Ok(DictGet(experiment, ret'.args[1]))
        /\ ~DictHas(experiment, ret'.args[1]) => ret'.out = Ok(ret'.args[2])

(* C12: get(item, default) changes neither the store nor builds_started;   *)
(* it returns the stored value of a stored item and default for any other  *)
(* item, declared or not.                                                  *)
C12_GetNeverBuilds == [][C12_Step]_vars

(* get of a declared key that is not stored returned the default given *)
C12_Witness ==
    /\ pc = "ready"
    /\ ret.op = "get"
    /\ DictHas(config, ret.args[1])
    /\ ~DictHas(experiment, ret.args[1])
    /\ ~(ret.args[1] \in Range(builds_started))
    /\ ret.out = Ok(Str("default"))

---------------------------------------------------------------------------
(* the build() frames that were active when 'Loop in config' was raised *)
InProgress(stack) == Range(SubSeq(stack, 1, Len(stack) - 1))

C13_Step ==
    /\ (ret'.out = Raise(LoopInConfig)) =>
          /\ cycle_stack' # <<>>
          /\ Cardinality({j \in 1..Len(builds_started') :
                             builds_started'[j] = Last(cycle_stack')}) = 1
          /\ \A k \in InProgress(cycle_stack') : ~DictHas(experiment', k)
          /\ Len(experiment') >= Len(experiment)
          /\ \A j \in 1..Len(experiment) : experiment'[j] = experiment[j]
    /\ (cycle_stack' # <<>>) => ret'.out = Raise(LoopInConfig)

(* C13: an operation fails with 'Loop in config' exactly when build(k)     *)
(* refused a key k it had already started; k is in builds_started once, so *)
(* its node was not instantiated a second time; no key whose build() frame *)
(* was active at that moment is in the store afterwards; and the entries   *)
(* the store had before the operation are still there, unchanged.          *)
C13_CycleErrorLeavesStoreIntact == [][C13_Step]_vars

(* a cycle through two keys was detected in the third build() frame *)
C13_Witness ==
    /\ pc = "failed"
    /\ cycle_stack = <<"second", "test", "second">>
    /\ ret.out = Raise(LoopInConfig)
    /\ builds_started = <<"second", "test">>
    /\ experiment = <<>>

---------------------------------------------------------------------------
(* between operations no build() is active: a key in builds_started that   *)
(* is not in the store is a key whose build was started and failed         *)
StartedAndFailed(k) == k \in Range(builds_started) /\ ~DictHas(experiment, k)

C14_Step ==
    \A k \in Range(builds_started) :
        StartedAndFailed(k) =>
            /\ k \in Range(builds_started')
            /\ ~DictHas(experiment', k)
            /\ (ret'.op \in {"build", "__getitem__", "__contains__"} /\ ret'.args[1] = k) =>
                  ret'.out = Raise(LoopInConfig)

(* what a failed build leaves: the key in builds_started, not in the store *)
C14_Failed ==
    /\ (ret.op = "__init__" /\ IsRaise(ret.out)) => StartedAndFailed(ret.args[1])
    /\ (/\ ret.op \in {"build", "__getitem__", "__contains__"}
        /\ IsRaise(ret.out)
        /\ ret.out.e # LoopInConfig) => StartedAndFailed(ret.args[1])
    /\ (ret.op = "__contains__" /\ ret.out = Ok(Bool(FALSE))) =>
          StartedAndFailed(ret.args[1])

(* C14: a build that fails, in the constructor or in a later build or      *)
(* indexing, with any error other than the refusal of build() itself,      *)
(* leaves its key in builds_started and out of the store; such a key stays *)
(* so at every later step, and every later build or indexing of it raises  *)
(* 'Loop in config'.  A membership test is an indexing: it answers False   *)
(* for an undeclared key the first time and raises 'Loop in config' after. *)
C14_FailedKeyLooksCyclic == []C14_Failed /\ [][C14_Step]_vars

(* a declared key whose type-key mapping failed during construction was    *)
(* indexed afterwards: no frame was active, the cycle error was raised     *)
C14_Witness ==
    /\ pc = "ready"
    /\ ret = Returned("__getitem__", <<"test">>, Raise(LoopInConfig))
    /\ DictHas(config, "test")
    /\ IsTypeKeyMapping(DictGet(config, "test"))
    /\ FailsByItself(DictGet(config, "test"))
    /\ cycle_stack = <<"test">>

(* an undeclared name was indexed twice: KeyError, then the cycle error *)
C14_WitnessUndeclared ==
    /\ pc = "ready"
    /\ idx > Len(config)
    /\ ret = Returned("__getitem__", <<"VAR">>, Raise(LoopInConfig))
    /\ ~DictHas(config, "VAR")

---------------------------------------------------------------------------
(* how a construction can end *)
C15_End ==
    /\ pc = "ready" => \A k \in DictKeys(config) : DictHas(experiment, k)
    /\ (pc = "ready" /\ ret.op = "__init__") => ret.out = Ok(None)
    /\ (pc = "failed" /\ ret.op = "__init__") =>
          /\ IsRaise(ret.out)
          /\ \/ ret.out.e = LoopInConfig
             \/ IsCallableInstantiationError(ret.out.e)
    /\ (pc \in {"ready", "failed"} /\ ret.op # "__init__") =>
          ret.op = "register_plugin"
    /\ Len(cycle_stack) <= Len(builds_started) + 1
    /\ NoDuplicates(builds_started)

(* C15: every construction that has entered its loop ends, with every      *)
(* top-level key stored or with the unknown-plugin error, an instantiation *)
(* error or the cycle error; builds_started holds no key twice, so the     *)
(* depth of the build is bounded by the names the document mentions.       *)
C15_ConstructionTerminates ==
    /\ (pc = "init") ~> (pc \in {"ready", "failed"})
    /\ []C15_End

(* the construction of a document with a cycle has ended, and so has one   *)
(* that stored its keys                                                    *)
C15_Witness ==
    /\ pc = "failed"
    /\ Len(config) = MaxKeys
    /\ \E k \in DictKeys(config) : Cyclic(k)
    /\ ret.out = Raise(LoopInConfig)

---------------------------------------------------------------------------
(* C16: in every state of an ExperimentConfig builds_started holds no key  *)
(* twice and every key of the store is in builds_started.                  *)
C16_StartedOnceStoredAfter ==
    Constructed =>
        /\ \A a, b \in 1..Len(builds_started) :
              builds_started[a] = builds_started[b] => a = b
        /\ DictKeys(experiment) \subseteq Range(builds_started)

(* a started key was refused by build() while the store held another key *)
C16_Witness ==
    /\ pc = "ready"
    /\ ret.op \in {"build", "__getitem__", "instantiate"}
    /\ ret.out = Raise(LoopInConfig)
    /\ Len(experiment) > 0
    /\ Len(builds_started) > Len(experiment)

---------------------------------------------------------------------------
(* __init__ returned: the loop went past the last key *)
ConstructedWithoutError == pc = "ready" /\ idx > Len(config)

(* C17: the store never holds a key that is not a top-level key of the     *)
(* document; once __init__ has returned it holds exactly the top-level     *)
(* keys, and len and keys report exactly those.                            *)
C17_StoreKeysAreDeclaredKeys ==
    Constructed =>
        /\ DictKeys(experiment) \subseteq DictKeys(config)
        /\ ConstructedWithoutError =>
              /\ DictKeys(experiment) = DictKeys(config)
              /\ Len(experiment) = Len(config)
              /\ ret.op = "__len__" => ret.out = Ok(Num(Len(config)))
              /\ ret.op = "keys" =>
                    /\ IsOk(ret.out)
                    /\ Len(ret.out.v.items) = Len(config)
                    /\ {x.s : x \in Range(ret.out.v.items)} = DictKeys(config)

(* keys() was called on a two-key experiment after an undeclared name had  *)
(* been read *)
C17_Witness ==
    /\ ConstructedWithoutError
    /\ Len(config) > 1
    /\ ret.op = "keys"
    /\ \E n \in Range(builds_started) : ~DictHas(config, n)

---------------------------------------------------------------------------
(* the orders in which the top-level keys of config can be listed *)
Orders ==
    {order \in [1..Len(config) -> DictKeys(config)] :
        \A a, b \in 1..Len(config) : order[a] = order[b] => a = b}

(* C18: when __init__ has returned or raised, the construction of the     *)
(* document with the same keys and nodes listed in any other order, with   *)
(* the same substitution variables and Registry, fails if this one failed, *)
(* and otherwise stores the same value under every key.                    *)
C18_KeyOrderDoesNotMatter ==
    (pc \in {"failed", "ready"} /\ ret.op = "__init__") =>
        \A order \in Orders :
            LET other == Constructs(order, 1, State(<<>>, <<>>))
            IN /\ IsRaise(other.out) <=> pc = "failed"
               /\ IsOk(other.out) =>
                     \A k \in DictKeys(config) :
                         /\ DictHas(other.st.experiment, k)
                         /\ DictGet(other.st.experiment, k) = DictGet(experiment, k)

(* a document whose first key refers to its second one was constructed:    *)
(* the store has the keys in the other order than the document             *)
C18_Witness ==
    /\ ConstructedWithoutError
    /\ Len(config) > 1
    /\ experiment[1][1] # config[1][1]
    /\ experiment[1][1] \in DependsOn(config[1][1])

====
